---- MODULE Spec2Model ----
(***************************************************************************)
(* Model of core/service_finder_api.py: the peza_api view.                 *)
(*                                                                         *)
(* One behaviour is one GET request.  The request's query parameters and   *)
(* the reply the Overpass service would give are fixed by Init; the        *)
(* actions are the consecutive blocks of the view, and every exception     *)
(* handler is part of the block that raises.                               *)
(*                                                                         *)
(* Coordinates are integers in units of 1e-6 degree.  JSON values of the   *)
(* upstream reply are tagged records (null / number / string) so that      *)
(* Python's truthiness and the format() type check can be modelled.        *)
(***************************************************************************)
EXTENDS Integers, Sequences, FiniteSets, TLC

VARIABLES
    request,      \* request.GET: lat, lon, category, radius (text or Absent)
    upstream,     \* what requests.post / raise_for_status / json() will yield
    pc,           \* position in peza_api
    lat, lon,     \* locals lat, lon after float()
    category,     \* local category
    radius,       \* local radius
    query,        \* overpass_query: the three statements of the union
    called,       \* TRUE once requests.post has been issued
    i,            \* index of the next element of data["elements"]
    locations,    \* local list locations
    seen_coords,  \* local set seen_coords
    outcome,      \* per processed element: which branch of the loop body ran
    response      \* the JsonResponse returned (status 0: none yet)

vars == <<request, upstream, pc, lat, lon, category, radius, query, called,
          i, locations, seen_coords, outcome, response>>

----------------------------------------------------------------------------
(* Bounds of the model *)

\* longest arbitrary "elements" array
MaxElems == 3
\* longest generated "elements" array (more than the result limit)
MaxUpstream == 22

----------------------------------------------------------------------------
(* Values *)

\* a query parameter / tag that is not there (QueryDict.get -> None)
Absent == "<absent>"

\* JSON values of the reply
Null == [t |-> "null", v |-> 0]
Str == [t |-> "str", v |-> 0]
Num(n) == [t |-> "num", v |-> n]

\* bool(x) for a JSON value: None, 0 and "" are falsy
Truthy(x) == \/ x.t = "num" /\ x.v # 0
             \/ x.t = "str"

\* Python's  a or b
PyOr(a, b) == IF Truthy(a) THEN a ELSE b

\* the request origin of the docstring example (lat=-13.9626&lon=33.7741)
OriginLat == -13962600
OriginLon == 33774100

\* longitudes on a grid of 0.0001 degree around the origin
GridLon(j) == OriginLon + 100 * j

Abs(n) == IF n < 0 THEN -n ELSE n
Min(a, b) == IF a < b THEN a ELSE b

\* float(text) of a query parameter: ok = FALSE is ValueError
ParseFloat(s) ==
    CASE s = "-13.9626" -> [ok |-> TRUE, v |-> OriginLat]
      [] s = "33.7741"  -> [ok |-> TRUE, v |-> OriginLon]
      [] OTHER          -> [ok |-> FALSE, v |-> 0]

DefaultRadius == 5000
MaxRadius == 20000
MaxResults == 20

\* int(request.GET.get('radius', 5000)): ok = FALSE is ValueError
ParseRadius(s) ==
    CASE s = Absent  -> [ok |-> TRUE, v |-> DefaultRadius]
      [] s = "-1"    -> [ok |-> TRUE, v |-> -1]
      [] s = "20000" -> [ok |-> TRUE, v |-> 20000]
      [] s = "20001" -> [ok |-> TRUE, v |-> 20001]
      [] s = "50000" -> [ok |-> TRUE, v |-> 50000]
      [] OTHER       -> [ok |-> FALSE, v |-> 0]

----------------------------------------------------------------------------
(* Pure helpers of the loop body *)

\* f"{x:.5f}" of a number: the sign and the magnitude rounded to 5 decimals
\* (the text keeps the sign, "-0.00000" differs from "0.00000"); an exact
\* half rounds to even
Fmt5(n) ==
    LET m == Abs(n)
        q == m \div 10
        r == m % 10
        up == r > 5 \/ (r = 5 /\ q % 2 = 1)
    IN  [neg |-> n < 0, mag |-> IF up THEN q + 1 ELSE q]

\* fault: the key keeps all six decimals instead of five
CoordKeyUnrounded(elem_lat, elem_lon) ==
    << [neg |-> elem_lat.v < 0, mag |-> Abs(elem_lat.v)],
       [neg |-> elem_lon.v < 0, mag |-> Abs(elem_lon.v)] >>

\* coord_key = f"{elem_lat:.5f},{elem_lon:.5f}"
CoordKey(elem_lat, elem_lon) == <<Fmt5(elem_lat.v), Fmt5(elem_lon.v)>>

\* format code 'f' raises ValueError for a str
KeyFaults(elem_lat, elem_lon) == elem_lat.t = "str" \/ elem_lon.t = "str"

\* distance_meters of calculate_distance from the origin, for |j| = 0..13
\* grid steps east or west on the origin's parallel (values of the
\* haversine code evaluated on these points)
GridMeters == <<0, 10, 21, 32, 43, 53, 64, 75, 86, 97, 107, 118, 129, 140>>

\* calculate_distance(lat1, lon1, lat2, lon2)[1], tabulated for the origin
\* and the coordinates of the model
calculate_distance(lat1, lon1, lat2, lon2) ==
    LET j == (lon2 - lon1) \div 100
    IN  CASE lat1 = OriginLat /\ lon1 = OriginLon
               /\ lat2 \in {OriginLat, OriginLat - 1}
               /\ lon2 = GridLon(j) /\ Abs(j) <= 13
                 -> GridMeters[Abs(j) + 1]
          [] lat1 = OriginLat /\ lon1 = OriginLon
               /\ lat2 = -13960000 /\ lon2 \in {GridLon(0), GridLon(1)}
                 -> 289
          [] lat1 = OriginLat /\ lon1 = OriginLon
               /\ lat2 = 0 /\ lon2 = GridLon(1)
                 -> 1552570

\* fault: an unstable sort, equal keys come out in reverse order
RECURSIVE SortUnstable(_)
SortUnstable(s) ==
    IF s = <<>> THEN <<>>
    ELSE LET head == SortUnstable(SubSeq(s, 1, Len(s) - 1))
             x == s[Len(s)]
             n == Cardinality({k \in 1..Len(head) :
                                 head[k].distance_meters < x.distance_meters})
         IN  SubSeq(head, 1, n) \o <<x>> \o SubSeq(head, n + 1, Len(head))

\* locations.sort(key=lambda x: x['distance_meters']): list.sort is stable;
\* insertion after every entry whose key is not larger
RECURSIVE SortByDistance(_)
SortByDistance(s) ==
    IF s = <<>> THEN <<>>
    ELSE LET head == SortByDistance(SubSeq(s, 1, Len(s) - 1))
             x == s[Len(s)]
             n == Cardinality({k \in 1..Len(head) :
                                 head[k].distance_meters <= x.distance_meters})
         IN  SubSeq(head, 1, n) \o <<x>> \o SubSeq(head, n + 1, Len(head))

\* fault: the slice is one too long
TruncateOneMore(s) == SubSeq(s, 1, Min(Len(s), MaxResults + 1))

\* locations[:20]
Truncate(s) == SubSeq(s, 1, Min(Len(s), MaxResults))

\* fault: fire is missing from the list of critical categories
CriticalWithoutFire == {"police", "hospital"}

\* category not in ['police', 'hospital', 'fire']
Critical == {"police", "hospital", "fire"}

\* fault: the fire entry names a tag value that does not exist
QueryFilterFireTypo(c) ==
    CASE c = "all"       -> "amenity~\"police|hospital|fire_station|clinic\""
      [] c = "police"    -> "amenity=police"
      [] c = "hospital"  -> "amenity=hospital"
      [] c = "ambulance" -> "amenity~\"hospital|clinic|doctors\""
      [] c = "fire"      -> "amenity=fire"
      [] c = "pharmacy"  -> "amenity=pharmacy"
      [] c = "utility"   -> "office~\"company|government\""
      [] OTHER           -> "amenity=hospital"

\* category_map.get(category, 'amenity=hospital'), and the 'all' branch
QueryFilter(c) ==
    CASE c = "all"       -> "amenity~\"police|hospital|fire_station|clinic\""
      [] c = "police"    -> "amenity=police"
      [] c = "hospital"  -> "amenity=hospital"
      [] c = "ambulance" -> "amenity~\"hospital|clinic|doctors\""
      [] c = "fire"      -> "amenity=fire_station"
      [] c = "pharmacy"  -> "amenity=pharmacy"
      [] c = "utility"   -> "office~\"company|government\""
      [] OTHER           -> "amenity=hospital"

\* one statement of the union:  kind[filter](around:radius,lat,lon);
Statement(kind, f, r, la, lo) ==
    [kind |-> kind, filter |-> f, radius |-> r, lat |-> la, lon |-> lo]

\* overpass_query
OverpassQuery(f, r, la, lo) ==
    << Statement("node", f, r, la, lo),
       Statement("way", f, r, la, lo),
       Statement("relation", f, r, la, lo) >>

----------------------------------------------------------------------------
(* Inputs: request parameters and upstream replies *)

NoCenter == [present |-> FALSE, lat |-> Null, lon |-> Null]
Center(la, lo) == [present |-> TRUE, lat |-> Num(la), lon |-> Num(lo)]

\* a node: direct lat / lon, no center
Node(la, lo, name) ==
    [lat |-> Num(la), lon |-> Num(lo), center |-> NoCenter, name |-> name]

\* a way or relation of "out center": center only
Way(la, lo, name) ==
    [lat |-> Null, lon |-> Null, center |-> Center(la, lo), name |-> name]

\* does the element carry the direct / the center coordinate fields
HasDirect(e) == e.lat.t # "null" /\ e.lon.t # "null"
HasCenter(e) == e.center.present

\* the features an arbitrary reply is made of
Elems ==
    { Node(OriginLat, GridLon(1), "A"),
      Node(OriginLat, GridLon(1), Absent),
      Node(OriginLat - 1, GridLon(1), "B"),
      Node(OriginLat, GridLon(-1), "C"),
      Node(OriginLat, GridLon(-1), Absent),
      Node(0, GridLon(1), "E"),
      [lat |-> Num(0), lon |-> Num(GridLon(1)),
       center |-> Center(-13960000, GridLon(0)), name |-> "F"],
      Way(-13960000, GridLon(0), "W"),
      Way(-13960000, GridLon(0), "Unknown Location"),
      [lat |-> Null, lon |-> Null, center |-> NoCenter, name |-> "N"],
      [lat |-> Str, lon |-> Str, center |-> NoCenter, name |-> "S"] }

\* every array of at most n arbitrary features
RECURSIVE SeqsUpTo(_)
SeqsUpTo(n) ==
    IF n = 0 THEN { <<>> }
    ELSE LET shorter == SeqsUpTo(n - 1)
         IN  shorter \cup { Append(s, e) : s \in shorter, e \in Elems }

\* named nodes on the origin's parallel, by growing distance:
\* 0, +1, -1, +2, -2, ... grid steps (each pair is equidistant)
RingJ(k) == IF k % 2 = 0 THEN k \div 2 ELSE -(k \div 2)
RingNode(k) == Node(OriginLat, GridLon(RingJ(k)), "P")

\* n nodes of the ring, nearest first / farthest first
NearFirst(n) == [k \in 1..n |-> RingNode(k)]
FarFirst(n) == [k \in 1..n |-> RingNode(n + 1 - k)]

Failures == {"Timeout", "ConnectionError", "HTTPError"}
Failed(kind) == [kind |-> kind, elements |-> <<>>]
Reply(elements) == [kind |-> "ok", elements |-> elements]

\* replies used while the request parameters vary
FewReplies ==
    { Failed("Timeout"), Reply(<<>>),
      Reply(<<Node(OriginLat, GridLon(1), "A")>>) }

\* replies used with a well-formed request
AllReplies ==
    { Failed(k) : k \in Failures }
      \cup { Reply(s) : s \in SeqsUpTo(MaxElems) }
      \cup { Reply(NearFirst(n)) : n \in 0..MaxUpstream }
      \cup { Reply(FarFirst(n)) : n \in 0..MaxUpstream }

Categories ==
    {"police", "hospital", "ambulance", "fire", "pharmacy", "utility",
     "all", "cafe"}

LatParams == {Absent, "", "abc", "-13.9626"}
LonParams == {Absent, "", "abc", "33.7741"}
RadiusParams == {Absent, "abc", "-1", "20000", "20001", "50000"}

AllRequests ==
    [lat : LatParams, lon : LonParams,
     category : Categories \cup {Absent}, radius : RadiusParams]

WellFormedRequests ==
    [lat : {"-13.9626"}, lon : {"33.7741"},
     category : Categories, radius : {Absent}]

NoResponse == [status |-> 0, body |-> [pending |-> TRUE]]

Init ==
    /\ \/ request \in AllRequests /\ upstream \in FewReplies
       \/ request \in WellFormedRequests /\ upstream \in AllReplies
    /\ pc = "params"
    /\ lat = 0
    /\ lon = 0
    /\ category = ""
    /\ radius = 0
    /\ query = <<>>
    /\ called = FALSE
    /\ i = 1
    /\ locations = <<>>
    /\ seen_coords = {}
    /\ outcome = <<>>
    /\ response = NoResponse

----------------------------------------------------------------------------
(* Responses *)

\* JsonResponse({"error": ...}, status=400)
ClientError(msg) == [status |-> 400, body |-> [error |-> msg]]

\* fault: the RequestException handler is missing, the generic one answers
ServiceUnavailableAsInternal(e) ==
    [status |-> 500,
     body |-> [success |-> FALSE,
               error |-> "Internal server error",
               details |-> e]]

\* except requests.RequestException as e
ServiceUnavailable(e) ==
    [status |-> 503,
     body |-> [success |-> FALSE,
               error |-> "Failed to fetch emergency services. Please try again.",
               details |-> e]]

\* except Exception as e
InternalError(e) ==
    [status |-> 500,
     body |-> [success |-> FALSE,
               error |-> "Internal server error",
               details |-> e]]

\* the success envelope
Success(locs, la, lo, c, r) ==
    [status |-> 200,
     body |-> [success |-> TRUE,
               count |-> Len(locs),
               locations |-> locs,
               search_params |-> [latitude |-> la, longitude |-> lo,
                                  category |-> c, radius_meters |-> r]]]

----------------------------------------------------------------------------
(* The blocks of peza_api *)

\* lines 23-26: read the parameters; int() of the radius may raise
ParseParams ==
    /\ pc = "params"
    /\ category' = IF request.category = Absent THEN "all" ELSE request.category
    /\ IF ParseRadius(request.radius).ok
         THEN /\ radius' = ParseRadius(request.radius).v
              /\ pc' = "validate"
              /\ UNCHANGED response
         ELSE /\ response' = InternalError("ValueError")
              /\ pc' = "done"
              /\ UNCHANGED radius
    /\ UNCHANGED <<request, upstream, lat, lon, query, called, i, locations,
                   seen_coords, outcome>>

\* lines 29-40: presence check, then float() of both coordinates
ValidateCoords ==
    /\ pc = "validate"
    /\ IF request.lat \in {Absent, ""} \/ request.lon \in {Absent, ""}
         THEN /\ response' = ClientError("Missing required parameters: lat and lon")
              /\ pc' = "done"
              /\ UNCHANGED <<lat, lon>>
         ELSE IF ~ParseFloat(request.lat).ok \/ ~ParseFloat(request.lon).ok
         THEN /\ response' = ClientError("Invalid coordinates format")
              /\ pc' = "done"
              /\ UNCHANGED <<lat, lon>>
         ELSE /\ lat' = ParseFloat(request.lat).v
              /\ lon' = ParseFloat(request.lon).v
              /\ pc' = "build"
              /\ UNCHANGED response
    /\ UNCHANGED <<request, upstream, category, radius, query, called, i,
                   locations, seen_coords, outcome>>

\* lines 43-44: if radius > 20000: radius = 20000
ClampRadius(r) == IF r > MaxRadius THEN MaxRadius ELSE r

\* lines 43-70: clamp the radius, pick the filter, build the query
BuildQuery ==
    /\ pc = "build"
    /\ radius' = ClampRadius(radius)
    /\ query' = OverpassQuery(QueryFilter(category), radius', lat, lon)
    /\ pc' = "call"
    /\ UNCHANGED <<request, upstream, lat, lon, category, called, i, locations,
                   seen_coords, outcome, response>>

\* lines 76-87: the outbound call; a RequestException ends the request
CallOverpass ==
    /\ pc = "call"
    /\ called' = TRUE
    /\ IF upstream.kind = "ok"
         THEN /\ pc' = "loop"
              /\ locations' = <<>>
              /\ seen_coords' = {}
              /\ UNCHANGED response
         ELSE /\ response' = ServiceUnavailable(upstream.kind)
              /\ pc' = "done"
              /\ UNCHANGED <<locations, seen_coords>>
    /\ UNCHANGED <<request, upstream, lat, lon, category, radius, query, i,
                   outcome>>

\* what the loop body did with one element
Outcome(branch, elem_lat, elem_lon, meters) ==
    [branch |-> branch, elem_lat |-> elem_lat, elem_lon |-> elem_lon,
     distance_meters |-> meters]

\* lines 89-130: one iteration of the loop over data["elements"]
NormalizeElement ==
    /\ pc = "loop"
    /\ i <= Len(upstream.elements)
    /\ LET element == upstream.elements[i]
           elem_lat == PyOr(element.lat, element.center.lat)
           elem_lon == PyOr(element.lon, element.center.lon)
           coord_key == CoordKey(elem_lat, elem_lon)
           name == IF element.name = Absent THEN "Unknown Location"
                   ELSE element.name
           meters == calculate_distance(lat, lon, elem_lat.v, elem_lon.v)
           location == [name |-> name, distance_meters |-> meters,
                        lat |-> elem_lat.v, lon |-> elem_lon.v]
       IN  IF ~Truthy(elem_lat) \/ ~Truthy(elem_lon)
           THEN /\ outcome' = Append(outcome, Outcome("no_coords", elem_lat, elem_lon, 0))
                /\ i' = i + 1
                /\ UNCHANGED <<pc, locations, seen_coords, response>>
           ELSE IF KeyFaults(elem_lat, elem_lon)
           THEN /\ outcome' = Append(outcome, Outcome("fault", elem_lat, elem_lon, 0))
                /\ response' = InternalError("ValueError")
                /\ pc' = "done"
                /\ UNCHANGED <<i, locations, seen_coords>>
           ELSE IF coord_key \in seen_coords
           THEN /\ outcome' = Append(outcome, Outcome("duplicate", elem_lat, elem_lon, 0))
                /\ i' = i + 1
                /\ UNCHANGED <<pc, locations, seen_coords, response>>
           ELSE IF name = "Unknown Location" /\ category \notin Critical
           THEN /\ outcome' = Append(outcome, Outcome("unnamed", elem_lat, elem_lon, 0))
                /\ seen_coords' = seen_coords \cup {coord_key}
                /\ i' = i + 1
                /\ UNCHANGED <<pc, locations, response>>
           ELSE /\ outcome' = Append(outcome, Outcome("emit", elem_lat, elem_lon, meters))
                /\ seen_coords' = seen_coords \cup {coord_key}
                /\ locations' = Append(locations, location)
                /\ i' = i + 1
                /\ UNCHANGED <<pc, response>>
    /\ UNCHANGED <<request, upstream, lat, lon, category, radius, query, called>>

\* lines 132-150: sort, truncate, answer
SortAndRespond ==
    /\ pc = "loop"
    /\ i > Len(upstream.elements)
    /\ locations' = Truncate(SortByDistance(locations))
    /\ response' = Success(locations', lat, lon, category, radius)
    /\ pc' = "done"
    /\ UNCHANGED <<request, upstream, lat, lon, category, radius, query, called,
                   i, seen_coords, outcome>>

Next ==
    \/ ParseParams
    \/ ValidateCoords
    \/ BuildQuery
    \/ CallOverpass
    \/ NormalizeElement
    \/ SortAndRespond

Spec == Init /\ [][Next]_vars

----------------------------------------------------------------------------
(* Types *)

TypeOK ==
    /\ pc \in {"params", "validate", "build", "call", "loop", "done"}
    /\ called \in BOOLEAN
    /\ i \in 1..(Len(upstream.elements) + 1)
    /\ Len(outcome) <= Len(upstream.elements)
    /\ response.status \in {0, 200, 400, 500, 503}

----------------------------------------------------------------------------
(* Vocabulary of the properties *)

Succeeded == pc = "done" /\ response.status = 200
Returned == response.body.locations

\* elements for which the loop body built a location
EmittedIdx == {k \in 1..Len(outcome) : outcome[k].branch = "emit"}

\* elements for which the loop body computed a deduplication key
KeyedIdx ==
    {k \in 1..Len(outcome) : outcome[k].branch \in {"duplicate", "unnamed", "emit"}}

\* position in "elements" of the feature a returned location was built from
SrcIdx(loc) ==
    CHOOSE k \in EmittedIdx :
        outcome[k].elem_lat.v = loc.lat /\ outcome[k].elem_lon.v = loc.lon

\* the deduplication key of a coordinate pair: both rounded to 5 decimals
DedupKey(la, lo) == <<Fmt5(la), Fmt5(lo)>>

----------------------------------------------------------------------------
(* C1: the returned locations are in non-decreasing order of               *)
(* distance_meters, and locations at equal distance keep the order their   *)
(* features had in the upstream "elements" array.                          *)
C1_SortedStable ==
    Succeeded =>
        \A a, b \in 1..Len(Returned) :
            a < b =>
                /\ Returned[a].distance_meters <= Returned[b].distance_meters
                /\ Returned[a].distance_meters = Returned[b].distance_meters
                      => SrcIdx(Returned[a]) < SrcIdx(Returned[b])

\* a success whose list holds a tie and a pair the sort had to swap
C1_Witness ==
    /\ Succeeded
    /\ \E a, b \in 1..Len(Returned) :
          a < b /\ Returned[a].distance_meters = Returned[b].distance_meters
    /\ \E a, b \in 1..Len(Returned) :
          a < b /\ SrcIdx(Returned[a]) > SrcIdx(Returned[b])

(* C2: a success returns at most 20 locations, count is the length of the  *)
(* list, and no location that was built but left out is strictly nearer    *)
(* than a returned one (the cut comes after the sort).                     *)
C2_TruncatedAfterSort ==
    Succeeded =>
        /\ Len(Returned) <= 20
        /\ response.body.count = Len(Returned)
        /\ \A k \in EmittedIdx :
              (\A a \in 1..Len(Returned) : SrcIdx(Returned[a]) # k)
                => \A a \in 1..Len(Returned) :
                      outcome[k].distance_meters >= Returned[a].distance_meters

\* more than 20 locations were built, the farthest first, and 20 returned
C2_Witness ==
    /\ Succeeded
    /\ Cardinality(EmittedIdx) > 20
    /\ Len(Returned) = 20
    /\ outcome[1].distance_meters > outcome[Len(outcome)].distance_meters
    /\ \A a \in 1..Len(Returned) : SrcIdx(Returned[a]) # 1

(* C3: no two returned locations share a deduplication key; of the         *)
(* upstream elements sharing a key only the first can be returned; the set *)
(* of seen keys is empty when the loop starts and only ever holds keys of  *)
(* elements of this request.                                               *)
C3_Dedup ==
    /\ pc \in {"params", "validate", "build", "call"} => seen_coords = {}
    /\ pc = "loop" /\ i = 1 => seen_coords = {}
    /\ seen_coords \subseteq
          {DedupKey(outcome[k].elem_lat.v, outcome[k].elem_lon.v) : k \in KeyedIdx}
    /\ Succeeded =>
          /\ \A a, b \in 1..Len(Returned) :
                a # b => DedupKey(Returned[a].lat, Returned[a].lon)
                           # DedupKey(Returned[b].lat, Returned[b].lon)
          /\ \A a \in 1..Len(Returned) :
                \A k \in KeyedIdx :
                    DedupKey(outcome[k].elem_lat.v, outcome[k].elem_lon.v)
                        = DedupKey(Returned[a].lat, Returned[a].lon)
                      => SrcIdx(Returned[a]) <= k

\* a success where a later element with other raw coordinates but the same
\* key as a returned one was dropped
C3_Witness ==
    /\ Succeeded
    /\ \E a \in 1..Len(Returned) :
          \E k \in KeyedIdx :
              /\ outcome[k].branch = "duplicate"
              /\ outcome[k].elem_lat.v # Returned[a].lat
              /\ DedupKey(outcome[k].elem_lat.v, outcome[k].elem_lon.v)
                    = DedupKey(Returned[a].lat, Returned[a].lon)

(* C4: a feature without a name tag that reaches the name rule is emitted  *)
(* exactly when the requested category is police, hospital or fire, and    *)
(* skipped for every other category; a feature whose name is not the       *)
(* placeholder is never skipped by the rule.                               *)
C4_UnnamedRule ==
    \A k \in 1..Len(outcome) :
        LET name == upstream.elements[k].name
        IN  /\ name = Absent /\ outcome[k].branch \in {"unnamed", "emit"}
                => (outcome[k].branch = "emit"
                      <=> category \in {"police", "hospital", "fire"})
            /\ name \notin {Absent, "Unknown Location"}
                => outcome[k].branch # "unnamed"

\* an unnamed feature emitted for the category fire
C4_Witness ==
    /\ category = "fire"
    /\ \E k \in 1..Len(outcome) :
          upstream.elements[k].name = Absent /\ outcome[k].branch = "emit"

(* C5: a request whose lat or lon is missing or not a number is answered   *)
(* with status 400 whatever its other parameters are, without a call to    *)
(* the external service, and a request without lat gets the message about  *)
(* missing required parameters.                                            *)
C5_BadCoordsRejected ==
    (pc = "done"
       /\ (~ParseFloat(request.lat).ok \/ ~ParseFloat(request.lon).ok))
      => /\ response.status = 400
         /\ ~called
         /\ request.lat = Absent
               => response.body.error = "Missing required parameters: lat and lon"

(* C6: with valid coordinates the radius of the outbound query, echoed in  *)
(* search_params.radius_meters, lies in 0..20000: a requested radius above *)
(* 20000 becomes 20000, one at or below 20000 is used unchanged, an absent *)
(* one is 5000.                                                            *)
C6_RadiusBounded ==
    query # <<>> =>
        LET asked == ParseRadius(request.radius).v
        IN  /\ \A n \in 1..Len(query) :
                  /\ query[n].radius \in 0..20000
                  /\ asked > 20000 => query[n].radius = 20000
                  /\ asked <= 20000 => query[n].radius = asked
                  /\ request.radius = Absent => query[n].radius = 5000
            /\ Succeeded
                  => response.body.search_params.radius_meters = query[1].radius

C8_FailureEnvelope ==
    (pc = "done" /\ response.status # 200) =>
        /\ {"success", "error", "details"} \subseteq DOMAIN response.body
        /\ response.body.success = FALSE

\* the filter table as the specification states it
ExpectedFilter(c) ==
    CASE c = "police"    -> "amenity=police"
      [] c = "hospital"  -> "amenity=hospital"
      [] c = "ambulance" -> "amenity~\"hospital|clinic|doctors\""
      [] c = "fire"      -> "amenity=fire_station"
      [] c = "pharmacy"  -> "amenity=pharmacy"
      [] c = "utility"   -> "office~\"company|government\""
      [] c = "all"       -> "amenity~\"police|hospital|fire_station|clinic\""
      [] OTHER           -> "amenity=hospital"

\* the request passes the parameter and coordinate checks
WellFormed(r) ==
    /\ ParseRadius(r.radius).ok
    /\ ParseFloat(r.lat).ok
    /\ ParseFloat(r.lon).ok

(* C9: for every request that passes validation a query is built, never a  *)
(* failure; its node, way and relation statements all carry the filter of  *)
(* the fixed table for the category (amenity=hospital for an unlisted      *)
(* one), the effective radius and the request origin.                      *)
C9_QueryTable ==
    (WellFormed(request) /\ pc \in {"call", "loop", "done"}) =>
        /\ Len(query) = 3
        /\ <<query[1].kind, query[2].kind, query[3].kind>>
              = <<"node", "way", "relation">>
        /\ \A n \in 1..3 :
              /\ query[n].filter
                    = ExpectedFilter(IF request.category = Absent THEN "all"
                                     ELSE request.category)
              /\ query[n].radius = radius
              /\ query[n].lat = ParseFloat(request.lat).v
              /\ query[n].lon = ParseFloat(request.lon).v

\* a query built for a category the table does not list
C9_Witness ==
    /\ pc = "call"
    /\ request.category = "cafe"
    /\ Len(query) = 3
    /\ query[2].filter = "amenity=hospital"

(* C10: the coordinate step skips a feature exactly when it has neither    *)
(* the direct nor the center coordinate fields; the direct fields are used *)
(* whenever present, whatever their values, and the center fields          *)
(* otherwise.                                                              *)
C10_CoordinateResolution ==
    \A k \in 1..Len(outcome) :
        LET e == upstream.elements[k]
        IN  /\ outcome[k].branch = "no_coords"
                  <=> (~HasDirect(e) /\ ~HasCenter(e))
            /\ HasDirect(e)
                  => /\ outcome[k].elem_lat = e.lat
                     /\ outcome[k].elem_lon = e.lon
            /\ (~HasDirect(e) /\ HasCenter(e))
                  => /\ outcome[k].elem_lat = e.center.lat
                     /\ outcome[k].elem_lon = e.center.lon

====
